---------------------------- MODULE Spec2Model ----------------------------
(***************************************************************************)
(* Model of the PROSTHEMIND+ perception-to-actuation loop of              *)
(* src/final/touch_to_sense.py: the material classifier, the temporal     *)
(* smoothing of material and grip, the contact/confidence state machine,  *)
(* the pain model with its relief-mode hysteresis, and the haptic alert   *)
(* dispatcher, driven by the frame loop of IntegratedProstheMind.run.     *)
(*                                                                         *)
(* Python floats are IEEE-754 binary64.  The confidence decay, the strain *)
(* accumulation and the pain total are computed in binary64 by the code,  *)
(* and their rounding decides threshold crossings and integer             *)
(* truncations, so the model computes them in binary64 too: a float is    *)
(* the exact dyadic rational m * 2^(-e), m an arbitrary-precision natural *)
(* held as a little-endian sequence of 14-bit limbs, and every arithmetic *)
(* operation is the exact operation followed by round-to-nearest-even to  *)
(* 53 significant bits.  Rendering (the draw_* methods and the animation  *)
(* counters only they read) is left out.                                  *)
(***************************************************************************)
EXTENDS Integers, Sequences, FiniteSets, TLC

None == "None"

\* None where the code holds a number, a box or a feature dictionary
NoDistance == 0 - 1
NoBox == [w |-> 0, h |-> 0, label |-> None]
NoFeatures ==
    [edge_density |-> 0 - 1, highlight_ratio |-> 0 - 1, texture_energy |-> 0 - 1,
     saturation_mean |-> 0 - 1]

Max2(a, b) == IF a >= b THEN a ELSE b
Min2(a, b) == IF a <= b THEN a ELSE b

(***************************************************************************)
(* Arbitrary-precision naturals: little-endian limbs in base 2^14, no     *)
(* leading (most significant) zero limb, zero is << >>.                    *)
(***************************************************************************)
Base == 2^14

Limb(a, i) == IF i <= Len(a) THEN a[i] ELSE 0

RECURSIVE BNorm(_)
BNorm(a) ==
    IF a = << >> THEN << >>
    ELSE IF a[Len(a)] = 0 THEN BNorm(SubSeq(a, 1, Len(a) - 1))
    ELSE a

RECURSIVE BFromInt(_)
BFromInt(n) == IF n = 0 THEN << >> ELSE <<n % Base>> \o BFromInt(n \div Base)

RECURSIVE BToInt(_)
BToInt(a) == IF a = << >> THEN 0 ELSE a[1] + Base * BToInt(Tail(a))

BAdd(a, b) ==
    LET n == Max2(Len(a), Len(b)) + 1
        c[i \in 0..n] ==
            IF i = 0 THEN 0 ELSE (Limb(a, i) + Limb(b, i) + c[i - 1]) \div Base
    IN  BNorm([i \in 1..n |-> (Limb(a, i) + Limb(b, i) + c[i - 1]) % Base])

\* a - b for a >= b
BSub(a, b) ==
    LET n == Len(a)
        br[i \in 0..n] ==
            IF i = 0 THEN 0
            ELSE IF Limb(a, i) - Limb(b, i) - br[i - 1] < 0 THEN 1 ELSE 0
    IN  BNorm([i \in 1..n |-> (Limb(a, i) - Limb(b, i) - br[i - 1] + Base) % Base])

RECURSIVE BCmpFrom(_, _, _)
BCmpFrom(a, b, i) ==
    IF i = 0 THEN 0
    ELSE IF a[i] < b[i] THEN -1
    ELSE IF a[i] > b[i] THEN 1
    ELSE BCmpFrom(a, b, i - 1)

\* -1, 0, 1 as a < b, a = b, a > b
BCmp(a, b) ==
    IF Len(a) < Len(b) THEN -1
    ELSE IF Len(a) > Len(b) THEN 1
    ELSE BCmpFrom(a, b, Len(a))

\* a * k for 0 <= k <= Base
BMulSmall(a, k) ==
    LET n == Len(a) + 1
        c[i \in 0..n] ==
            IF i = 0 THEN 0 ELSE (Limb(a, i) * k + c[i - 1]) \div Base
    IN  BNorm([i \in 1..n |-> (Limb(a, i) * k + c[i - 1]) % Base])

Zeros(q) == [i \in 1..q |-> 0]

RECURSIVE BMulFrom(_, _, _)
BMulFrom(a, b, i) ==
    IF i > Len(a) THEN << >>
    ELSE BAdd(IF a[i] = 0 THEN << >> ELSE Zeros(i - 1) \o BMulSmall(b, a[i]),
              BMulFrom(a, b, i + 1))

BMul(a, b) == BMulFrom(a, b, 1)

\* quotient and remainder of a by d, 0 < d <= 2^16
BDivSmall(a, d) ==
    LET n == Len(a)
        \* r[i]: the remainder carried into limb i, from the top limb down
        r[i \in 1..(n + 1)] ==
            IF i = n + 1 THEN 0 ELSE (r[i + 1] * Base + a[i]) % d
    IN  [q |-> BNorm([i \in 1..n |-> (r[i + 1] * Base + a[i]) \div d]),
         r |-> IF n = 0 THEN 0 ELSE r[1]]

\* a * 2^k
BShl(a, k) ==
    IF a = << >> THEN << >>
    ELSE Zeros(k \div 14) \o BMulSmall(a, 2^(k % 14))

\* floor(a / 2^k)
BShr(a, k) ==
    IF k \div 14 >= Len(a) THEN << >>
    ELSE BDivSmall(SubSeq(a, (k \div 14) + 1, Len(a)), 2^(k % 14)).q

RECURSIVE IntBitLen(_)
IntBitLen(n) == IF n = 0 THEN 0 ELSE 1 + IntBitLen(n \div 2)

BBitLen(a) == IF a = << >> THEN 0 ELSE 14 * (Len(a) - 1) + IntBitLen(a[Len(a)])

\* bit k (0 = least significant) of a
BBit(a, k) == (Limb(a, (k \div 14) + 1) \div 2^(k % 14)) % 2

\* the k low bits of a are all zero
BLowZero(a, k) ==
    /\ \A i \in 1..Min2(k \div 14, Len(a)) : a[i] = 0
    /\ Limb(a, (k \div 14) + 1) % 2^(k % 14) = 0

RECURSIVE BTrailingZeros(_)
BTrailingZeros(a) ==
    IF a = << >> THEN 0
    ELSE IF a[1] = 0 THEN 14 + BTrailingZeros(Tail(a))
    ELSE CHOOSE k \in 0..13 : a[1] % 2^k = 0 /\ a[1] % 2^(k + 1) # 0

(***************************************************************************)
(* binary64 values >= 0: [m, e] is m * 2^(-e) with m odd, or zero.         *)
(***************************************************************************)
FZero == [m |-> << >>, e |-> 0]

FCanon(m, e) ==
    IF m = << >> THEN FZero
    ELSE LET tz == BTrailingZeros(m) IN [m |-> BShr(m, tz), e |-> e - tz]

\* round m * 2^(-e) to 53 significant bits, ties to even
FRound(m, e) ==
    LET bl == BBitLen(m) IN
    IF bl <= 53 THEN FCanon(m, e)
    ELSE LET d  == bl - 53
             q  == BShr(m, d)
             up == /\ BBit(m, d - 1) = 1
                   /\ (~BLowZero(m, d - 1) \/ BBit(q, 0) = 1)
         IN  FCanon(IF up THEN BAdd(q, <<1>>) ELSE q, e - d)

FFromInt(n) == FCanon(BFromInt(n), 0)

\* both mantissas at the common exponent Max2(x.e, y.e)
FAlign(x, y) ==
    LET E == Max2(x.e, y.e)
    IN  [a |-> BShl(x.m, E - x.e), b |-> BShl(y.m, E - y.e), e |-> E]

FCmp(x, y) == LET al == FAlign(x, y) IN BCmp(al.a, al.b)
FLt(x, y) == FCmp(x, y) = -1
FLe(x, y) == FCmp(x, y) <= 0
FGt(x, y) == FCmp(x, y) = 1

FAdd(x, y) == LET al == FAlign(x, y) IN FRound(BAdd(al.a, al.b), al.e)

\* x - y for x >= y
FSub(x, y) == LET al == FAlign(x, y) IN FRound(BSub(al.a, al.b), al.e)

FMul(x, y) == FRound(BMul(x.m, y.m), x.e + y.e)

\* the correctly rounded quotient n / d of two integers, n >= 0, 0 < d <= 2^16;
\* the lowest bit of the dividend is the sticky bit of the remainder
FDivInt(n, d) ==
    LET qr == BDivSmall(BShl(BFromInt(n), 84), d)
    IN  FRound(BAdd(BShl(qr.q, 1), IF qr.r = 0 THEN << >> ELSE <<1>>), 85)

\* int(x): truncation toward zero
FTrunc(x) ==
    IF x.e >= 0 THEN BToInt(BShr(x.m, x.e)) ELSE BToInt(BShl(x.m, 0 - x.e))

FMin(x, y) == IF FLt(y, x) THEN y ELSE x


(***************************************************************************)
(* Reference tables (read-only).                                           *)
(***************************************************************************)
\* the keys of MATERIAL_DATABASE in dictionary (insertion) order
MaterialOrder ==
    <<"fabric", "metal", "glass", "wood", "plastic", "paper", "ceramic", "stone">>

Materials == {MaterialOrder[i] : i \in 1..Len(MaterialOrder)}

MATERIAL_DATABASE ==
    [fabric  |-> [grip_strength |-> 30, pain_factor |-> FDivInt(2, 10)],
     metal   |-> [grip_strength |-> 70, pain_factor |-> FDivInt(7, 10)],
     glass   |-> [grip_strength |-> 85, pain_factor |-> FDivInt(9, 10)],
     wood    |-> [grip_strength |-> 50, pain_factor |-> FDivInt(4, 10)],
     plastic |-> [grip_strength |-> 60, pain_factor |-> FDivInt(5, 10)],
     paper   |-> [grip_strength |-> 25, pain_factor |-> FDivInt(1, 10)],
     ceramic |-> [grip_strength |-> 75, pain_factor |-> FDivInt(8, 10)],
     stone   |-> [grip_strength |-> 80, pain_factor |-> FDivInt(85, 100)]]

\* 'vase' is written twice in the dictionary literal; the later entry stands
OBJECT_MATERIAL_MAP ==
    [o \in {"backpack", "handbag", "tie", "umbrella", "suitcase", "teddy bear"}
        |-> "fabric"] @@
    [o \in {"knife", "fork", "spoon", "scissors", "refrigerator", "oven", "sink",
            "toaster"} |-> "metal"] @@
    [o \in {"wine glass", "cup", "bottle", "mirror"} |-> "glass"] @@
    [o \in {"chair", "dining table", "bench"} |-> "wood"] @@
    [o \in {"cell phone", "remote", "keyboard", "mouse", "laptop", "toothbrush",
            "bowl"} |-> "plastic"] @@
    [o \in {"book", "newspaper"} |-> "paper"] @@
    [o \in {"potted plant", "vase"} |-> "ceramic"]

\* warning_level of every entry of OBJECT_INSIGHTS
OBJECT_INSIGHTS ==
    [o \in {"knife"} |-> "critical"] @@
    [o \in {"wine glass", "vase", "scissors", "cake", "suitcase", "chair"}
        |-> "high"] @@
    [o \in {"cup", "bottle", "fork", "cell phone", "laptop", "keyboard", "pizza",
            "umbrella", "bowl", "backpack", "handbag", "potted plant",
            "baseball bat", "tennis racket"} |-> "medium"] @@
    [o \in {"remote", "mouse", "apple", "banana", "orange", "sandwich", "hot dog",
            "spoon", "toothbrush", "book", "newspaper", "sports ball", "default"}
        |-> "low"]

\* warning_level of every entry of MATERIAL_INSIGHTS
MATERIAL_INSIGHTS ==
    [granite |-> "high", marble |-> "high", metal |-> "medium",
     glass |-> "critical", wood |-> "low", fabric |-> "low", plastic |-> "low",
     ceramic |-> "high", paper |-> "low", stone |-> "high"]

(***************************************************************************)
(* Pure functions of IntegratedProstheMind.                                *)
(***************************************************************************)
\* the key of the OBJECT_INSIGHTS entry returned
get_object_insight(object_name) ==
    IF object_name \in DOMAIN OBJECT_INSIGHTS THEN object_name ELSE "default"

\* the key of the MATERIAL_INSIGHTS entry returned, or None
get_material_insight(material_name) ==
    IF material_name = None THEN None
    ELSE IF material_name = "stone"
         THEN (IF "granite" \in DOMAIN MATERIAL_INSIGHTS THEN "granite"
               ELSE IF "stone" \in DOMAIN MATERIAL_INSIGHTS THEN "stone" ELSE None)
    ELSE IF material_name \in DOMAIN MATERIAL_INSIGHTS THEN material_name
    ELSE None

\* the distance bands of estimate_distance
DistanceOfRatio(size_ratio) ==
    IF FGt(size_ratio, FDivInt(3, 10)) THEN 5
    ELSE IF FGt(size_ratio, FDivInt(2, 10)) THEN 8
    ELSE IF FGt(size_ratio, FDivInt(15, 100)) THEN 12
    ELSE IF FGt(size_ratio, FDivInt(1, 10)) THEN 20
    ELSE IF FGt(size_ratio, FDivInt(5, 100)) THEN 35
    ELSE 50

\* variant of estimate_distance: the ratio is taken by floor division
estimate_distance_floordiv(box_area, frame_area) ==
    DistanceOfRatio(FFromInt(box_area \div frame_area))

estimate_distance(box_area, frame_area) ==
    DistanceOfRatio(FDivInt(box_area, frame_area))

\* A region of interest is [rows, cols, px]: its shape and what the pixel
\* statistics measure, px = NoFeatures when the OpenCV calls raise.  The measured
\* features are held on a lattice on which every binary64 operation of the
\* scoring below is exact: edge_density and highlight_ratio in quarters,
\* texture_energy in units of 1500, saturation_mean in units of 150.
analyze_texture(roi) ==
    IF roi.rows * roi.cols = 0 \/ roi.rows < 20 \/ roi.cols < 20 THEN NoFeatures
    ELSE roi.px

\* the eight scores, times 8 (exact integers on the feature lattice)
scores(features) ==
    LET E == features.edge_density
        H == features.highlight_ratio
        T == features.texture_energy
        S == features.saturation_mean
    IN  [fabric  |-> E * 6 + (4 - H) * 4,
         metal   |-> H * 10 + (4 - E) * 4,
         glass   |-> H * 12 + (4 - E) * 6,
         wood    |-> T * 40 + E * 4,
         plastic |-> S * 8 + (1 - T * 5) * 12,
         paper   |-> E * 8 + (4 - H) * 4,
         ceramic |-> (4 - E) * 4 + H * 4,
         stone   |-> T * 48 + H * 6 + (4 - E) * 5]

\* variant of ArgMaxFrom: of equal scores the later key wins
RECURSIVE ArgMaxLast(_, _, _)
ArgMaxLast(sc, i, best) ==
    IF i > Len(MaterialOrder) THEN best
    ELSE ArgMaxLast(sc, i + 1,
                    IF sc[MaterialOrder[i]] >= sc[best] THEN MaterialOrder[i] ELSE best)

\* max(scores, key=scores.get): the first key, in dictionary order, whose
\* score is maximal
RECURSIVE ArgMaxFrom(_, _, _)
ArgMaxFrom(sc, i, best) ==
    IF i > Len(MaterialOrder) THEN best
    ELSE ArgMaxFrom(sc, i + 1,
                    IF sc[MaterialOrder[i]] > sc[best] THEN MaterialOrder[i] ELSE best)

RECURSIVE SumScores(_, _)
SumScores(sc, i) ==
    IF i > Len(MaterialOrder) THEN 0 ELSE sc[MaterialOrder[i]] + SumScores(sc, i + 1)

LabelPriorConfidence == FDivInt(85, 100)

\* variant of ScoreConfidence: the quotient is returned as it is
ScoreConfidenceUnclamped(best_score, total_score) ==
    IF total_score > 0 THEN FDivInt(best_score, total_score) ELSE FZero

\* lines 714-729: best_material and min(scores[best_material] / total, 1.0)
ScoreConfidence(best_score, total_score) ==
    FMin(IF total_score > 0 THEN FDivInt(best_score, total_score) ELSE FZero,
         FFromInt(1))

BestOf(sc, best_material) ==
    [material |-> best_material,
     confidence |-> ScoreConfidence(sc[best_material], SumScores(sc, 1))]

ClassifyScores(sc) == BestOf(sc, ArgMaxFrom(sc, 2, MaterialOrder[1]))

\* variant of classify_material: the label of the region is not consulted
classify_by_features(features, detected_object) ==
    IF features = NoFeatures THEN [material |-> None, confidence |-> FZero]
    ELSE ClassifyScores(scores(features))

\* returns [material, confidence]
classify_material(features, detected_object) ==
    IF features = NoFeatures THEN [material |-> None, confidence |-> FZero]
    ELSE IF detected_object # None /\ detected_object \in DOMAIN OBJECT_MATERIAL_MAP
    THEN [material |-> OBJECT_MATERIAL_MAP[detected_object],
          confidence |-> LabelPriorConfidence]
    ELSE ClassifyScores(scores(features))

(***************************************************************************)
(* Bounded histories: collections.deque(maxlen=n).                         *)
(***************************************************************************)
GripHistoryMaxLen == 15
MaterialHistoryMaxLen == 10
PainHistoryMaxLen == 20

\* variant of DequeAppend: a list in place of the deque, nothing is evicted
ListAppend(h, x, maxlen) == Append(h, x)

\* deque.append: the oldest entry is dropped when the deque is full
DequeAppend(h, x, maxlen) ==
    IF Len(h) >= maxlen THEN Tail(h) \o <<x>> ELSE h \o <<x>>

RECURSIVE SeqSum(_)
SeqSum(h) == IF h = << >> THEN 0 ELSE h[1] + SeqSum(Tail(h))

\* int(sum / n): the binary64 quotient, truncated towards zero
TruncQuotient(sum, n) ==
    IF sum >= 0 THEN FTrunc(FDivInt(sum, n)) ELSE 0 - FTrunc(FDivInt(0 - sum, n))

\* int(np.mean(h)) for a non-empty history of integers
IntMean(h) == TruncQuotient(SeqSum(h), Len(h))

(***************************************************************************)
(* PainFeedbackSystem.  A pain state is the record of the object's fields. *)
(***************************************************************************)
PainInit ==
    [pain_level |-> 0, pain_history |-> << >>, strain_accumulation |-> FZero,
     relief_mode |-> FALSE]

DefaultPainFactor == FDivInt(5, 10)
StrainCap == FFromInt(50)
ReliefScale == FDivInt(6, 10)
StrainDecay == FDivInt(1, 2)

\* max(0, (grip_strength - 40) * 1.5)
base_pain(grip_strength) ==
    IF grip_strength - 40 <= 0 THEN FZero ELSE FDivInt((grip_strength - 40) * 3, 2)

\* (grip_strength / 100) * 0.5
strain_step(grip_strength) == FMul(FDivInt(grip_strength, 100), FDivInt(1, 2))

pain_factor(material) ==
    IF material # None /\ material \in DOMAIN MATERIAL_DATABASE
    THEN MATERIAL_DATABASE[material].pain_factor
    ELSE DefaultPainFactor

material_pain(grip_strength, material) ==
    FMul(base_pain(grip_strength), pain_factor(material))

\* variant of Strained: the strain is not capped
StrainedUncapped(p, grip_strength) ==
    [p EXCEPT !.strain_accumulation = FAdd(@, strain_step(grip_strength))]

\* strain_accumulation = min(strain_accumulation + strain_step, 50)
Strained(p, grip_strength) ==
    [p EXCEPT !.strain_accumulation =
                  FMin(FAdd(@, strain_step(grip_strength)), StrainCap)]

\* variant of Relieved: relief mode does not scale the pain
Unrelieved(p, total_pain) == total_pain

\* total_pain *= 0.6 in relief mode
Relieved(p, total_pain) ==
    IF p.relief_mode THEN FMul(total_pain, ReliefScale) ELSE total_pain

\* min(100, max(0, int(total_pain))), p holding the updated strain
ClippedPain(p, grip_strength, material) ==
    Min2(100, Max2(0, FTrunc(Relieved(p,
        FAdd(material_pain(grip_strength, material), p.strain_accumulation)))))

Sampled(p, grip_strength, material) ==
    [pain |-> p, new_pain |-> ClippedPain(p, grip_strength, material)]

\* returns [pain: the pain state with the strain updated, new_pain: the sample]
calculate_pain_from_grip(p, grip_strength, material) ==
    Sampled(Strained(p, grip_strength), grip_strength, material)

\* variant of Released: the sample is not floored at 0
ReleasedUnfloored(p) ==
    [pain |-> [p EXCEPT !.strain_accumulation =
                            IF FLt(@, StrainDecay) THEN FZero
                            ELSE FSub(@, StrainDecay)],
     new_pain |-> p.pain_level - 2]

\* variant of Released: the strain is kept
ReleasedKeepingStrain(p) == [pain |-> p, new_pain |-> Max2(0, p.pain_level - 2)]

\* update_pain_level when not gripping: the level falls by 2, the strain by 0.5
Released(p) ==
    [pain |-> [p EXCEPT !.strain_accumulation =
                            IF FLt(@, StrainDecay) THEN FZero
                            ELSE FSub(@, StrainDecay)],
     new_pain |-> Max2(0, p.pain_level - 2)]

\* pain_history.append(new_pain)
Recorded(r) ==
    [r.pain EXCEPT !.pain_history = DequeAppend(@, r.new_pain, PainHistoryMaxLen)]

\* pain_level = int(np.mean(pain_history)) if pain_history else 0
Levelled(p) ==
    [p EXCEPT !.pain_level = IF p.pain_history # << >>
                             THEN IntMean(p.pain_history) ELSE 0]

ReliefEnter == 75
ReliefExit == 40

\* variant of Hysteresis: relief mode is left as soon as the level is not above 75
NoHysteresis(p) == [p EXCEPT !.relief_mode = p.pain_level > ReliefEnter]

\* relief mode is entered above 75 and left below 40
Hysteresis(p) ==
    [p EXCEPT !.relief_mode = IF p.pain_level > ReliefEnter THEN TRUE
                              ELSE IF p.pain_level < ReliefExit THEN FALSE
                              ELSE @]

update_pain_level(p, grip_strength, material, is_gripping) ==
    Hysteresis(Levelled(Recorded(
        IF is_gripping THEN calculate_pain_from_grip(p, grip_strength, material)
        ELSE Released(p))))

(***************************************************************************)
(* State.                                                                  *)
(***************************************************************************)
VARIABLES
    sys,          \* the fields of IntegratedProstheMind
    pain,         \* sys.pain_system, a PainFeedbackSystem
    haptic,       \* sys.haptic, a HapticFeedbackSimulator
    frame_count,  \* the local frame_count of run
    pc,           \* "read": at cap.read; "key": at cv2.waitKey; "done": after the
                  \* loop; "closed": after the finally clause of run
    clock,        \* the last reading of time.time(), in tenths of a second
    timers,       \* the number of started threading.Timer callbacks not yet run
    feed,         \* the frame source: Free, or the frames still to be delivered
    ev,           \* what the last step did
    hist,         \* what the run has done so far
    call          \* the application of a pure function: its arguments and result

vars == <<sys, pain, haptic, frame_count, pc, clock, timers, feed, ev, hist, call>>

\* time.time() when the program starts, in tenths of a second; every timestamp field
\* starts at 0, long before it
StartTime == 100

SysInit(yolo) ==
    [yolo |-> yolo,
     current_material |-> None, current_object |-> None,
     current_grip |-> 0, target_grip |-> 0, confidence |-> FZero,
     object_distance_cm |-> NoDistance,
     current_insight |-> None, current_material_insight |-> None,
     last_insight_sound |-> 0,
     grip_history |-> << >>, material_history |-> << >>,
     detection_box |-> << >>,
     was_in_contact |-> FALSE, contact_frame_count |-> 0,
     last_pain_alert |-> 0]

HapticInit(audio) ==
    [audio_enabled |-> audio, last_beep_time |-> 0,
     proximity_alert_active |-> FALSE, contact_feedback_active |-> FALSE,
     pain_alert_active |-> FALSE]

\* the observation of a step: which branch ran, the frame and the
\* classification it saw, the events it raised, is_gripping of each update of the pain model, the targets
\* appended to the grip history, the alerts and the sounds, and the order in
\* which the cycle committed its classification ("commit"), updated the grip
\* ("grip") and the pain model ("pain") and dispatched its alerts
EvOf(kind) ==
    [kind |-> kind, frame |-> [det |-> NoBox, px |-> NoFeatures, dt |-> 0],
     material |-> None, is_new_contact |-> FALSE,
     is_new_material |-> FALSE, pain_updates |-> << >>, targets |-> << >>,
     alerts |-> << >>, beeps |-> 0, order |-> << >>]

(***************************************************************************)
(* HapticFeedbackSimulator.  The methods act on a world record             *)
(* w = [sys, pain, haptic, timers, ev].                                    *)
(***************************************************************************)
\* the sound is played only when audio is enabled; any failure is swallowed
generate_beep(w) ==
    IF ~w.haptic.audio_enabled THEN w ELSE [w EXCEPT !.ev.beeps = @ + 1]

start_timer(w) == [w EXCEPT !.timers = @ + 1]

Alert(w, name) ==
    [w EXCEPT !.ev.alerts = Append(@, name), !.ev.order = Append(@, name)]

object_insight_alert(w, warning_level) ==
    IF warning_level = "critical"
    THEN start_timer(generate_beep(Alert(w, "insight")))
    ELSE generate_beep(Alert(w, "insight"))

\* (current_time - last) > seconds, for times and an interval in tenths of a
\* second
Elapsed(current_time, last, tenths) == current_time - last > tenths

BeepCooldownTenths == 2
InsightIntervalTenths == 15
PainIntervalTenths == 30

proximity_alert(w, distance_cm, current_time) ==
    IF distance_cm <= 10
       /\ Elapsed(current_time, w.haptic.last_beep_time, BeepCooldownTenths)
    THEN [generate_beep(Alert(w, "proximity")) EXCEPT
             !.haptic.last_beep_time = current_time,
             !.haptic.proximity_alert_active = TRUE]
    ELSE w

contact_feedback(w, material, grip_strength) ==
    IF material # None /\ material \in DOMAIN MATERIAL_DATABASE
    THEN LET w1 == generate_beep(Alert(w, "contact"))
             w2 == IF grip_strength > 70 /\ material \in {"glass", "ceramic", "paper"}
                   THEN start_timer(w1) ELSE w1
         IN  [w2 EXCEPT !.haptic.contact_feedback_active = TRUE]
    ELSE w

pain_alert(w, pain_level) ==
    IF pain_level > 70
    THEN [start_timer(generate_beep(Alert(w, "pain_high"))) EXCEPT
             !.haptic.pain_alert_active = TRUE]
    ELSE IF pain_level > 50
    THEN [generate_beep(Alert(w, "pain_low")) EXCEPT !.haptic.pain_alert_active = TRUE]
    ELSE w

UpdatePain(w, grip_strength, material, is_gripping) ==
    [w EXCEPT !.pain = update_pain_level(@, grip_strength, material, is_gripping),
              !.ev.pain_updates = Append(@, is_gripping),
              !.ev.order = Append(@, "pain")]

(***************************************************************************)
(* IntegratedProstheMind.run: one detection cycle (frame_count % 3 = 0).   *)
(* A frame is [det, px, dt]: det is what the detector finds nearest the    *)
(* centre, NoBox or [w, h, label] (the box sides in pixels and the class   *)
(* name); px is what the texture statistics of the boxed region measure,   *)
(* NoFeatures when OpenCV raises; dt is the time since the previous        *)
(* detection cycle, in tenths of a second.  One reading of time.time()     *)
(* serves the cycle.                                                       *)
(***************************************************************************)
\* the camera delivers 160 x 120 frames
FrameArea == 160 * 120

detect_with_yolo(s, frame) == IF ~s.yolo THEN NoBox ELSE frame.det

AcceptThreshold == FDivInt(4, 10)
WeakDecay == FDivInt(3, 100)
WeakFloor == FDivInt(2, 10)
NoDetectionDecay == FDivInt(5, 100)
NoDetectionFloor == FDivInt(1, 10)

\* variant of Decayed: the confidence is kept
Undecayed(confidence, rate) == confidence

\* max(0, confidence - rate)
Decayed(confidence, rate) ==
    IF FLt(confidence, rate) THEN FZero ELSE FSub(confidence, rate)

\* lines 1318-1331: a new object label shows its insight
InsightStep(w, detected_object, current_time) ==
    IF detected_object # w.sys.current_object
    THEN LET insight == get_object_insight(detected_object)
             w1 == [w EXCEPT !.sys.current_object = detected_object,
                             !.sys.current_insight = insight]
         IN  IF Elapsed(current_time, w.sys.last_insight_sound, InsightIntervalTenths)
             THEN [object_insight_alert(w1, OBJECT_INSIGHTS[insight]) EXCEPT
                      !.sys.last_insight_sound = current_time]
             ELSE w1
    ELSE w

\* lines 1333-1338
ProximityAlertStep(w, current_time) ==
    IF w.sys.object_distance_cm <= 10
    THEN proximity_alert(w, w.sys.object_distance_cm, current_time)
    ELSE w

ProximityStep(w, det, current_time) ==
    ProximityAlertStep(
        [w EXCEPT !.sys.object_distance_cm =
                      estimate_distance(det.w * det.h, FrameArea)],
        current_time)

Count(h, x) == Cardinality({i \in 1..Len(h) : h[i] = x})

\* the values max(set(h), key=h.count) can return: the iteration order of a
\* set of strings follows their hashes, which differ from one interpreter run
\* to the next, so any most frequent value may come first
Modes(h) ==
    {m \in {h[i] : i \in 1..Len(h)} : \A i \in 1..Len(h) : Count(h, h[i]) <= Count(h, m)}

SmoothingMinLen == 5

\* variant of SmoothedMaterials: the mode is taken only of a full window
SmoothedWhenFull(h, material) ==
    IF Len(h) >= MaterialHistoryMaxLen THEN Modes(h) ELSE {material}

\* lines 1345-1347 with the window h after the append: the materials the
\* cycle can commit
SmoothedMaterials(h, material) ==
    IF Len(h) >= SmoothingMinLen THEN Modes(h) ELSE {material}

\* lines 1357-1363: the material insight and its sound
MaterialInsightStep(w, material, current_time) ==
    LET insight == get_material_insight(material)
        w1 == [w EXCEPT !.sys.current_material_insight = insight]
    IN  IF insight # None
           /\ Elapsed(current_time, w.sys.last_insight_sound, InsightIntervalTenths)
        THEN [object_insight_alert(w1, MATERIAL_INSIGHTS[insight]) EXCEPT
                 !.sys.last_insight_sound = current_time]
        ELSE w1

\* lines 1381-1382
\* variant of GripMeanStep: the mean is rounded to the nearest integer
GripRoundedStep(w) ==
    [w EXCEPT !.sys.current_grip =
                  (2 * SeqSum(w.sys.grip_history) + Len(w.sys.grip_history))
                      \div (2 * Len(w.sys.grip_history))]

GripMeanStep(w) == [w EXCEPT !.sys.current_grip = IntMean(w.sys.grip_history)]

\* variant of GripStep: the grip window holds 20 targets
GripStepWiderWindow(w, target) ==
    GripMeanStep([w EXCEPT !.sys.grip_history =
                               DequeAppend(@, target, PainHistoryMaxLen),
                           !.ev.targets = Append(@, target),
                           !.ev.order = Append(@, "grip")])

GripStep(w, target) ==
    GripMeanStep([w EXCEPT !.sys.grip_history =
                               DequeAppend(@, target, GripHistoryMaxLen),
                           !.ev.targets = Append(@, target),
                           !.ev.order = Append(@, "grip")])

ContactRefireCycles == 30

\* lines 1384-1391
ContactFeedbackStep(w, material, is_new_contact) ==
    IF is_new_contact \/ w.sys.contact_frame_count = 0
    THEN [contact_feedback(w, material, w.sys.current_grip) EXCEPT
             !.sys.contact_frame_count = ContactRefireCycles]
    ELSE w

ContactCountStep(w) ==
    [w EXCEPT !.sys.was_in_contact = TRUE,
              !.sys.contact_frame_count = IF @ > 0 THEN @ - 1 ELSE @]

ContactStep(w, material, is_new_contact) ==
    ContactCountStep(ContactFeedbackStep(w, material, is_new_contact))

PainAlertLevel == 60

\* lines 1393-1401
PainAlertStep(w, current_time) ==
    IF w.pain.pain_level > PainAlertLevel
       /\ Elapsed(current_time, w.sys.last_pain_alert, PainIntervalTenths)
    THEN [pain_alert(w, w.pain.pain_level) EXCEPT
             !.sys.last_pain_alert = current_time]
    ELSE w

PainStep(w, material, current_time) ==
    PainAlertStep(UpdatePain(w, w.sys.current_grip, material, TRUE), current_time)

\* lines 1345-1354: the history, the events and the committed fields
CommitStep(w, raw, confidence, material) ==
    [w EXCEPT !.sys.material_history = DequeAppend(@, raw, MaterialHistoryMaxLen),
              !.sys.current_material = material,
              !.sys.confidence = confidence,
              !.sys.target_grip = MATERIAL_DATABASE[material].grip_strength,
              !.ev.is_new_contact = ~w.sys.was_in_contact /\ material # None,
              !.ev.is_new_material = material # w.sys.current_material,
              !.ev.order = Append(@, "commit")]

\* lines 1357-1363, w holding the events of the cycle
NewMaterialStep(w, current_time) ==
    IF w.ev.is_new_material
    THEN MaterialInsightStep(w, w.sys.current_material, current_time)
    ELSE w

TargetGripStep(w) == GripStep(w, w.sys.target_grip)

\* variant of FeedbackStep: without audio the sound of the contact alert raises
\* and the rest of the cycle is lost
FeedbackStepAborting(w, current_time) ==
    IF ~w.haptic.audio_enabled /\ (w.ev.is_new_contact \/ w.sys.contact_frame_count = 0)
    THEN w
    ELSE PainStep(ContactStep(w, w.sys.current_material, w.ev.is_new_contact),
                  w.sys.current_material, current_time)

\* lines 1384-1401, w holding the events of the cycle
FeedbackStep(w, current_time) ==
    PainStep(ContactStep(w, w.sys.current_material, w.ev.is_new_contact),
             w.sys.current_material, current_time)

\* lines 1345-1401: the classification (raw, confidence) is accepted;
\* material is the smoothed material
AcceptedBranch(w, raw, confidence, material, current_time) ==
    FeedbackStep(
        TargetGripStep(
            NewMaterialStep(CommitStep(w, raw, confidence, material), current_time)),
        current_time)

\* lines 1405-1408: the confidence is under the floor
WeakClear(w) ==
    UpdatePain([w EXCEPT !.sys.current_material = None,
                         !.sys.current_material_insight = None,
                         !.sys.was_in_contact = FALSE],
               0, None, FALSE)

WeakFloorStep(w) == IF FLt(w.sys.confidence, WeakFloor) THEN WeakClear(w) ELSE w

\* lines 1403-1408: a classification below the threshold
WeakBranch(w) ==
    WeakFloorStep([w EXCEPT !.sys.confidence = Decayed(@, WeakDecay)])

\* lines 1412-1425: the confidence is under the floor
NoDetectionClear(w) ==
    UpdatePain(
        [GripStep([w EXCEPT !.sys.current_material = None,
                            !.sys.current_object = None,
                            !.sys.current_insight = None,
                            !.sys.current_material_insight = None,
                            !.sys.detection_box = << >>,
                            !.sys.object_distance_cm = NoDistance],
                  0)
         EXCEPT !.sys.was_in_contact = FALSE,
                !.haptic.proximity_alert_active = FALSE],
        0, None, FALSE)

NoDetectionFloorStep(w) ==
    IF FLt(w.sys.confidence, NoDetectionFloor) THEN NoDetectionClear(w) ELSE w

\* lines 1410-1425: the detector returned no box
NoDetectionBranch(w) ==
    NoDetectionFloorStep([w EXCEPT !.sys.confidence = Decayed(@, NoDetectionDecay)])

\* lines 1314-1342: the box is recorded, the insight and proximity alerts are
\* evaluated, the region is classified
Classification(det, frame) ==
    classify_material(analyze_texture([rows |-> det.h, cols |-> det.w, px |-> frame.px]),
                      det.label)

\* variant of Accepted: the threshold is one half
AcceptedAboveHalf(c) == c.material # None /\ FGt(c.confidence, FDivInt(5, 10))

Accepted(c) == c.material # None /\ FGt(c.confidence, AcceptThreshold)

BoxStep(w, det, current_time) ==
    ProximityStep(InsightStep([w EXCEPT !.sys.detection_box = <<det.w, det.h>>],
                              det.label, current_time),
                  det, current_time)

\* lines 1442-1451: the R key
ResetCommand(w) ==
    [w EXCEPT !.sys.current_material = None,
              !.sys.current_object = None,
              !.sys.current_insight = None,
              !.sys.current_material_insight = None,
              !.sys.current_grip = 0,
              !.sys.confidence = FZero,
              !.sys.grip_history = << >>,
              !.sys.material_history = << >>,
              !.pain.pain_level = 0,
              !.pain.strain_accumulation = FZero]

(***************************************************************************)
(* The frame source and the keyboard.                                      *)
(***************************************************************************)
PxSmooth ==
    [edge_density |-> 0, highlight_ratio |-> 1, texture_energy |-> 0,
     saturation_mean |-> 1]
PxRough ==
    [edge_density |-> 2, highlight_ratio |-> 0, texture_energy |-> 20,
     saturation_mean |-> 0]
PxGrain ==
    [edge_density |-> 4, highlight_ratio |-> 0, texture_energy |-> 2,
     saturation_mean |-> 0]


Box(w, h, label) == [w |-> w, h |-> h, label |-> label]
Frame(det, px, dt) == [det |-> det, px |-> px, dt |-> dt]

\* the frames of an unconstrained run: no box; labelled regions near and far;
\* unlabelled regions of rough, grained and smooth texture; a region too small
\* to analyse; a region on which OpenCV raises
FrameShapes ==
    {<<NoBox, NoFeatures>>,
     <<Box(80, 84, "wine glass"), PxSmooth>>,
     <<Box(60, 50, "backpack"), PxSmooth>>,
     <<Box(40, 40, "knife"), PxSmooth>>,
     <<Box(50, 40, "person"), PxRough>>,
     <<Box(50, 40, "person"), PxGrain>>,
     <<Box(50, 40, "person"), PxSmooth>>,
     <<Box(10, 30, "cup"), PxSmooth>>,
     <<Box(30, 30, "cup"), NoFeatures>>}

\* the time between two detection cycles, in tenths of a second: under every
\* interval, or over all
DtChoices == {1, 35}

Frames == {Frame(fs[1], fs[2], dt) : fs \in FrameShapes, dt \in DtChoices}

\* the frames of the scripted runs, half a second apart
GlassFrame == Frame(Box(80, 84, "wine glass"), PxSmooth, 5)
FabricFrame == Frame(Box(60, 50, "backpack"), PxSmooth, 5)
MetalFrame == Frame(Box(40, 40, "knife"), PxSmooth, 5)
StoneFrame == Frame(Box(50, 40, "person"), PxRough, 5)
WeakFrame == Frame(Box(50, 40, "person"), PxSmooth, 5)
NoFrame == Frame(NoBox, NoFeatures, 5)

\* an unconstrained run: any frame, any key
Free == [free |-> TRUE, phases |-> << >>]

\* a scripted run: each phase is [frames, n, key]: n consecutive detection
\* cycles, each on one of the frames, and the key pressed after the last of them
Phase(frames, n, key) == [frames |-> frames, n |-> n, key |-> key]
Scripted(phases) == [free |-> FALSE, phases |-> phases]

\* frames an unconstrained run may read
MaxFrames == 6

CanRead == IF feed.free THEN frame_count < MaxFrames ELSE feed.phases # << >>

DetFrames == IF feed.free THEN Frames ELSE Head(feed.phases).frames

\* variant of DetectionFrame: detection runs on every frame
DetectionEveryFrame == pc = "read" /\ CanRead

\* a frame on which detection runs (line 1311)
DetectionFrame == pc = "read" /\ CanRead /\ (frame_count + 1) % 3 = 0

\* a pulse delayed by 0.1 to 0.15 seconds has sounded before a cycle that
\* comes 0.2 seconds or more after the one that started it
Due(frame) == frame.dt >= 2 => timers = 0

KeyChoices ==
    IF feed.free THEN {"none", "r", "q"}
    ELSE IF frame_count % 3 = 0 /\ Head(feed.phases).n = 1 THEN {Head(feed.phases).key}
    ELSE {"none"}

Consume ==
    feed' = IF feed.free \/ frame_count % 3 # 0 THEN feed
            ELSE IF Head(feed.phases).n > 1
                 THEN [feed EXCEPT !.phases[1].n = @ - 1]
            ELSE [feed EXCEPT !.phases = Tail(@)]

World == [sys |-> sys, pain |-> pain, haptic |-> haptic, timers |-> timers, ev |-> ev]

Start(kind) == [World EXCEPT !.ev = EvOf(kind)]

Commit(w) ==
    /\ sys' = w.sys
    /\ pain' = w.pain
    /\ haptic' = w.haptic
    /\ timers' = w.timers
    /\ ev' = w.ev

\* the class of an alert
AlertClasses == {"proximity", "contact", "insight", "pain"}
ClassOf(name) == IF name \in {"pain_low", "pain_high"} THEN "pain" ELSE name

\* the record of the run: the detection cycles done, those at which
\* is_new_material was true, the length of the present run of no-detection
\* cycles and the confidence it started from, the targets appended to the
\* grip history since it was last emptied, the time of the last alert of
\* each class, 0 when there was none, and the detection cycles since the last
\* accepted classification, and the material and the length of the present
\* run of accepted cycles that committed one material
HistInit ==
    [cycles |-> 0, new_material_at |-> << >>, none_run |-> 0, none_from |-> FZero,
     targets |-> << >>, alert_at |-> [c \in AlertClasses |-> 0], unaccepted |-> 0,
     run_material |-> None, run_len |-> 0]

HistStep(w, current_time) ==
    [hist EXCEPT
       !.alert_at = [c \in AlertClasses |->
                        IF \E i \in DOMAIN w.ev.alerts : ClassOf(w.ev.alerts[i]) = c
                        THEN current_time ELSE @[c]],
       !.cycles = @ + 1,
       !.new_material_at = IF w.ev.is_new_material THEN Append(@, hist.cycles + 1)
                           ELSE @,
       !.none_run = IF w.ev.kind = "none" THEN @ + 1 ELSE 0,
       !.none_from = IF w.ev.kind = "none" /\ hist.none_run = 0 THEN sys.confidence
                     ELSE @,
       !.targets = @ \o w.ev.targets,
       !.unaccepted = IF w.ev.kind = "accepted" THEN 0 ELSE @ + 1,
       !.run_material = IF w.ev.kind = "accepted" THEN w.sys.current_material
                        ELSE None,
       !.run_len = IF w.ev.kind # "accepted" THEN 0
                   ELSE IF w.sys.current_material = hist.run_material THEN @ + 1
                   ELSE 1]

NoCall == [op |-> None]

(***************************************************************************)
(* Actions: the steps of the loop of run (lines 1300-1457).                *)
(***************************************************************************)
InitWith(f) ==
    /\ \E yolo \in BOOLEAN : sys = SysInit(yolo)
    /\ \E audio \in BOOLEAN : haptic = HapticInit(audio)
    /\ pain = PainInit
    /\ frame_count = 0
    /\ pc = "read"
    /\ clock = StartTime
    /\ timers = 0
    /\ feed = f
    /\ ev = EvOf("init")
    /\ hist = HistInit
    /\ call = NoCall

Init == InitWith(Free)

\* cap.read fails: the loop ends
ReadFail ==
    /\ pc = "read"
    /\ feed.free \/ feed.phases = << >>
    /\ pc' = "done"
    /\ ev' = EvOf("read_fail")
    /\ UNCHANGED <<sys, pain, haptic, frame_count, clock, timers, feed, hist, call>>

\* a frame on which detection does not run
SkipFrame ==
    /\ pc = "read"
    /\ CanRead
    /\ (frame_count + 1) % 3 # 0
    /\ frame_count' = frame_count + 1
    /\ pc' = "key"
    /\ ev' = EvOf("skip")
    /\ UNCHANGED <<sys, pain, haptic, clock, timers, feed, hist, call>>

CycleDone(w, current_time) ==
    /\ Commit(w)
    /\ clock' = current_time
    /\ frame_count' = frame_count + 1
    /\ pc' = "key"
    /\ hist' = HistStep(w, current_time)
    /\ UNCHANGED <<feed, call>>

\* a detection cycle whose classification is accepted
AcceptedCycle ==
    /\ DetectionFrame
    /\ \E frame \in DetFrames :
         /\ Due(frame)
         /\ detect_with_yolo(sys, frame) # NoBox
         /\ \E c \in {Classification(detect_with_yolo(sys, frame), frame)} :
              /\ Accepted(c)
              /\ \E material \in SmoothedMaterials(
                        DequeAppend(sys.material_history, c.material,
                                    MaterialHistoryMaxLen), c.material) :
                   \E w \in {AcceptedBranch(
                                 BoxStep([Start("accepted") EXCEPT
                                              !.ev.frame = frame,
                                              !.ev.material = c.material],
                                         detect_with_yolo(sys, frame),
                                         clock + frame.dt),
                                 c.material, c.confidence, material,
                                 clock + frame.dt)} :
                       CycleDone(w, clock + frame.dt)

\* a detection cycle whose classification is below the threshold, or absent
WeakCycle ==
    /\ DetectionFrame
    /\ \E frame \in DetFrames :
         /\ Due(frame)
         /\ detect_with_yolo(sys, frame) # NoBox
         /\ \E c \in {Classification(detect_with_yolo(sys, frame), frame)} :
              /\ ~Accepted(c)
              /\ \E w \in {WeakBranch(
                               BoxStep([Start("weak") EXCEPT
                                            !.ev.frame = frame,
                                            !.ev.material = c.material],
                                       detect_with_yolo(sys, frame),
                                       clock + frame.dt))} :
                     CycleDone(w, clock + frame.dt)

\* a detection cycle in which the detector returns no box
NoDetectionCycle ==
    /\ DetectionFrame
    /\ \E frame \in DetFrames :
         /\ Due(frame)
         /\ detect_with_yolo(sys, frame) = NoBox
         /\ \E w \in {NoDetectionBranch([Start("none") EXCEPT !.ev.frame = frame])} :
              CycleDone(w, clock + frame.dt)

\* variant of KeyQuit: the Q key is read as any other key
KeyQuitIgnored ==
    /\ pc = "key"
    /\ "q" \in KeyChoices
    /\ pc' = "read"
    /\ ev' = EvOf("quit")
    /\ Consume
    /\ UNCHANGED <<sys, pain, haptic, frame_count, clock, timers, hist, call>>

\* Q: the loop ends
KeyQuit ==
    /\ pc = "key"
    /\ "q" \in KeyChoices
    /\ pc' = "done"
    /\ ev' = EvOf("quit")
    /\ Consume
    /\ UNCHANGED <<sys, pain, haptic, frame_count, clock, timers, hist, call>>

\* R: reset
KeyReset ==
    /\ pc = "key"
    /\ "r" \in KeyChoices
    /\ Commit(ResetCommand(Start("reset")))
    /\ pc' = "read"
    /\ hist' = [hist EXCEPT !.targets = << >>]
    /\ Consume
    /\ UNCHANGED <<frame_count, clock, call>>

\* no key, S (a screenshot) or any other key
KeyOther ==
    /\ pc = "key"
    /\ "none" \in KeyChoices
    /\ pc' = "read"
    /\ ev' = EvOf("key")
    /\ Consume
    /\ UNCHANGED <<sys, pain, haptic, frame_count, clock, timers, hist, call>>

\* variant of TimerFire: the pulse takes the proximity cooldown as a sound of
\* the main loop does
TimerFireStamping ==
    /\ timers > 0
    /\ timers' = timers - 1
    /\ haptic' = [haptic EXCEPT !.last_beep_time = clock]
    /\ UNCHANGED <<sys, pain, frame_count, pc, clock, feed, ev, hist, call>>

\* a delayed secondary pulse runs on its timer thread: generate_beep
TimerFire ==
    /\ timers > 0
    /\ timers' = timers - 1
    /\ UNCHANGED <<sys, pain, haptic, frame_count, pc, clock, feed, ev, hist, call>>

\* lines 1461-1464, the finally clause: the camera is released and the windows
\* are destroyed
Shutdown ==
    /\ pc = "done"
    /\ pc' = "closed"
    /\ UNCHANGED <<sys, pain, haptic, frame_count, clock, timers, feed, ev, hist, call>>

Next ==
    \/ ReadFail
    \/ SkipFrame
    \/ AcceptedCycle
    \/ WeakCycle
    \/ NoDetectionCycle
    \/ KeyQuit
    \/ KeyReset
    \/ KeyOther
    \/ TimerFire
    \/ Shutdown

Spec == Init /\ [][Next]_vars

\* the finally clause runs as soon as the loop is left: nothing stands between
\* the break and it
SpecStop == Init /\ [][Next]_vars /\ WF_vars(Shutdown)

(***************************************************************************)
(* Scripted runs, with the detector and the sound present.                 *)
(***************************************************************************)
InitScripted(scripts) ==
    /\ sys = SysInit(TRUE)
    /\ haptic = HapticInit(TRUE)
    /\ pain = PainInit
    /\ frame_count = 0
    /\ pc = "read"
    /\ clock = StartTime
    /\ timers = 0
    /\ feed \in {Scripted(phases) : phases \in scripts}
    /\ ev = EvOf("init")
    /\ hist = HistInit
    /\ call = NoCall

\* one cycle of each kind, a reset and a quit
Tour ==
    <<Phase({NoFrame}, 1, "none"), Phase({GlassFrame}, 1, "r"),
      Phase({WeakFrame}, 1, "none"), Phase({NoFrame}, 1, "q")>>

\* a long hold of a wine glass, eased to a backpack, then the glass again
HoldRun == 93
EaseRun == 25
RegripRun == 25
Hold ==
    <<Phase({GlassFrame}, HoldRun, "none"), Phase({FabricFrame}, EaseRun, "none"),
      Phase({GlassFrame}, RegripRun, "none")>>

\* a rough region classified as stone with confidence 1.0, then nothing
DecayRun == 20
Decay == <<Phase({StoneFrame}, 1, "none"), Phase({NoFrame}, DecayRun, "none")>>

InitRuns == InitScripted({Tour, Hold, Decay})

SpecRuns == InitRuns /\ [][Next]_vars

\* any sequence of backpacks and knives
SmoothRun == 10
Smooth == <<Phase({FabricFrame, MetalFrame}, SmoothRun, "none")>>

InitSmooth == InitScripted({Tour, Smooth})

SpecSmooth == InitSmooth /\ [][Next]_vars

\* the frames of a camera at 30 frames a second: a detection cycle every tenth
\* of a second
BriskGlass == Frame(Box(80, 84, "wine glass"), PxSmooth, 1)
BriskWood == Frame(Box(50, 40, "person"), PxGrain, 1)
BriskNone == Frame(NoBox, NoFeatures, 1)

\* a grained region touched, lost from view until the contact is cleared, and
\* touched again or exchanged for a wine glass
BriskGap == 10
BriskRun == 6
Brisk ==
    <<Phase({BriskWood}, 1, "none"), Phase({BriskNone}, BriskGap, "none"),
      Phase({BriskWood, BriskGlass}, BriskRun, "none")>>

\* a wine glass held for some seconds
BriskHoldRun == 40
BriskHold == <<Phase({BriskGlass}, BriskHoldRun, "none")>>

InitBrisk == InitScripted({Tour, Brisk, BriskHold})

SpecBrisk == InitBrisk /\ [][Next]_vars

\* a grained region, classified wood with confidence 0.558
GrainFrame == Frame(Box(50, 40, "person"), PxGrain, 5)

\* a contact of low confidence, after which nothing is accepted any more: weak
\* detections and empty frames in any order, for longer than the confidence
\* lasts
LullRun == 15
Lull ==
    <<Phase({GrainFrame}, 1, "none"), Phase({WeakFrame, NoFrame}, LullRun, "none")>>

\* a contact of confidence 1.0 or 0.85, weak detections for as long as a
\* confidence of 1.0 stays at the weak floor or above, then weak detections
\* and empty frames in any order
WeakRun == 26
TailRun == 4
LongLull ==
    <<Phase({StoneFrame, GlassFrame}, 1, "none"), Phase({WeakFrame}, WeakRun, "none"),
      Phase({WeakFrame, NoFrame}, TailRun, "none")>>

\* a contact that was reset by R, then weak detections and empty frames
LullAfterReset ==
    <<Phase({GlassFrame}, 1, "r"), Phase({WeakFrame, NoFrame}, TailRun, "q")>>

InitLull == InitScripted({Lull, LongLull, LullAfterReset, Decay})

SpecLull == InitLull /\ [][Next]_vars

\* unlabelled regions scored stone with a confidence just over the threshold
\* (23/57) and just under it (29/73)
PxOver ==
    [edge_density |-> 1, highlight_ratio |-> 1, texture_energy |-> 1,
     saturation_mean |-> 0]
PxUnder ==
    [edge_density |-> 2, highlight_ratio |-> 0, texture_energy |-> 1,
     saturation_mean |-> 0]
OverFrame == Frame(Box(50, 40, "person"), PxOver, 5)
UnderFrame == Frame(Box(50, 40, "person"), PxUnder, 5)

\* backpacks and regions on either side of the threshold, in any order
EdgeRun == 6
Edge == <<Phase({FabricFrame, OverFrame, UnderFrame}, EdgeRun, "none")>>

\* a knife, whose insight sounds a delayed second pulse
Knife == <<Phase({MetalFrame}, 1, "none")>>

InitEdge == InitScripted({Tour, Edge, Knife})

SpecEdge == InitEdge /\ [][Next]_vars

(***************************************************************************)
(* classify_material applied to a feature vector and a label.              *)
(***************************************************************************)
FeatureVectors ==
    [edge_density : 0..4, highlight_ratio : 0..4, texture_energy : {0, 2, 20},
     saturation_mean : {0, 1}] \cup {NoFeatures}

Labels == DOMAIN OBJECT_MATERIAL_MAP \cup {"person", None}

InitClassify ==
    /\ sys = SysInit(TRUE)
    /\ haptic = HapticInit(TRUE)
    /\ pain = PainInit
    /\ frame_count = 0
    /\ pc = "call"
    /\ clock = StartTime
    /\ timers = 0
    /\ feed = Free
    /\ ev = EvOf("init")
    /\ hist = HistInit
    /\ \E features \in FeatureVectors, detected_object \in Labels :
          call = [op |-> "classify_material", features |-> features,
                  detected_object |-> detected_object, done |-> FALSE,
                  result |-> [material |-> None, confidence |-> FZero]]

ClassifyCall ==
    /\ pc = "call"
    /\ ~call.done
    /\ call' = [call EXCEPT !.done = TRUE,
                            !.result = classify_material(call.features,
                                                         call.detected_object)]
    /\ UNCHANGED <<sys, pain, haptic, frame_count, pc, clock, timers, feed, ev, hist>>

SpecClassify == InitClassify /\ [][ClassifyCall]_vars

(***************************************************************************)
(* update_pain_level applied to a PainFeedbackSystem, call after call.     *)
(***************************************************************************)
PainCalls ==
    {[grip_strength |-> 100, material |-> "glass", is_gripping |-> TRUE],
     [grip_strength |-> 85, material |-> "glass", is_gripping |-> TRUE],
     [grip_strength |-> 30, material |-> "fabric", is_gripping |-> TRUE],
     [grip_strength |-> 0, material |-> None, is_gripping |-> FALSE],
     [grip_strength |-> 85, material |-> "glass", is_gripping |-> FALSE]}

MaxCalls == 6

InitPain ==
    /\ sys = SysInit(TRUE)
    /\ haptic = HapticInit(TRUE)
    /\ pain = PainInit
    /\ frame_count = 0
    /\ pc = "call"
    /\ clock = StartTime
    /\ timers = 0
    /\ feed = Free
    /\ ev = EvOf("init")
    /\ hist = HistInit
    /\ call = [op |-> "update_pain_level", n |-> 0, grip_strength |-> 0,
               material |-> None, is_gripping |-> FALSE]

PainCall ==
    /\ pc = "call"
    /\ call.n < MaxCalls
    /\ \E c \in PainCalls :
          /\ pain' = update_pain_level(pain, c.grip_strength, c.material,
                                       c.is_gripping)
          /\ call' = [call EXCEPT !.n = @ + 1,
                                  !.grip_strength = c.grip_strength,
                                  !.material = c.material,
                                  !.is_gripping = c.is_gripping]
    /\ UNCHANGED <<sys, haptic, frame_count, pc, clock, timers, feed, ev, hist>>

SpecPain == InitPain /\ [][PainCall]_vars

(***************************************************************************)
(* update_pain_level fed the same grip on the same material, cycle after   *)
(* cycle, from the initial pain state.                                     *)
(***************************************************************************)
StrainFeeds ==
    [grip_strength : {30, 70, 90, 100}, material : {"metal", "glass", "stone"}]

MaxStrainCalls == 120

InitStrain ==
    /\ sys = SysInit(TRUE)
    /\ haptic = HapticInit(TRUE)
    /\ pain = PainInit
    /\ frame_count = 0
    /\ pc = "call"
    /\ clock = StartTime
    /\ timers = 0
    /\ feed = Free
    /\ ev = EvOf("init")
    /\ hist = HistInit
    /\ \E f \in StrainFeeds :
          call = [op |-> "feed", grip_strength |-> f.grip_strength,
                  material |-> f.material, n |-> 0]

StrainCall ==
    /\ pc = "call"
    /\ call.n < MaxStrainCalls
    /\ pain' = update_pain_level(pain, call.grip_strength, call.material, TRUE)
    /\ call' = [call EXCEPT !.n = @ + 1]
    /\ UNCHANGED <<sys, haptic, frame_count, pc, clock, timers, feed, ev, hist>>

SpecStrain == InitStrain /\ [][StrainCall]_vars

(***************************************************************************)
(* The pain model worn by a long grip on glass, then gripped, released and *)
(* reset in any order; call.mix lists the updates of the mixed phase.       *)
(***************************************************************************)
\* the applied grips: full, and the base grip of glass
WearGrips == {100, 85}

WearRun == 119
MixRun == 3

InitWear ==
    /\ sys = SysInit(TRUE)
    /\ haptic = HapticInit(TRUE)
    /\ pain = PainInit
    /\ frame_count = 0
    /\ pc = "call"
    /\ clock = StartTime
    /\ timers = 0
    /\ feed = Free
    /\ ev = EvOf("init")
    /\ hist = HistInit
    /\ \E g \in WearGrips :
          call = [op |-> "wear", grip_strength |-> g, n |-> 0, mix |-> << >>]

\* the grip goes on
WearCall ==
    /\ pc = "call"
    /\ call.op = "wear"
    /\ call.mix = << >>
    /\ call.n < WearRun
    /\ pain' = update_pain_level(pain, call.grip_strength, "glass", TRUE)
    /\ call' = [call EXCEPT !.n = @ + 1]
    /\ UNCHANGED <<sys, haptic, frame_count, pc, clock, timers, feed, ev, hist>>

\* an update of the mixed phase, gripping or not
MixCall ==
    /\ pc = "call"
    /\ call.op = "wear"
    /\ Len(call.mix) < MixRun
    /\ \E is_gripping \in BOOLEAN :
          /\ pain' = IF is_gripping
                     THEN update_pain_level(pain, call.grip_strength, "glass", TRUE)
                     ELSE update_pain_level(pain, 0, None, FALSE)
          /\ call' = [call EXCEPT
                        !.mix = Append(@, IF is_gripping THEN "grip" ELSE "release")]
    /\ UNCHANGED <<sys, haptic, frame_count, pc, clock, timers, feed, ev, hist>>

\* the R key in the mixed phase: what ResetCommand does to the pain model
MixReset ==
    /\ pc = "call"
    /\ call.op = "wear"
    /\ Len(call.mix) < MixRun
    /\ pain' = ResetCommand(Start("reset")).pain
    /\ call' = [call EXCEPT !.mix = Append(@, "reset")]
    /\ UNCHANGED <<sys, haptic, frame_count, pc, clock, timers, feed, ev, hist>>

NextWear == WearCall \/ MixCall \/ MixReset

SpecWear == InitWear /\ [][NextWear]_vars

(***************************************************************************)
(* estimate_distance applied to two regions of one frame.                  *)
(***************************************************************************)
\* region areas: every whole percentage of the frame up to 40%, the whole
\* frame, and one pixel more than each threshold of the bands
DistanceAreas ==
    {k * (FrameArea \div 100) : k \in 0..40} \cup {FrameArea}
        \cup {k * (FrameArea \div 100) + 1 : k \in {5, 10, 15, 20, 30}}

InitDistance ==
    /\ sys = SysInit(TRUE)
    /\ haptic = HapticInit(TRUE)
    /\ pain = PainInit
    /\ frame_count = 0
    /\ pc = "call"
    /\ clock = StartTime
    /\ timers = 0
    /\ feed = Free
    /\ ev = EvOf("init")
    /\ hist = HistInit
    /\ \E box_area \in DistanceAreas, other_area \in DistanceAreas :
          call = [op |-> "estimate_distance", box_area |-> box_area,
                  other_area |-> other_area, frame_area |-> FrameArea,
                  done |-> FALSE, result |-> NoDistance, other_result |-> NoDistance]

DistanceCall ==
    /\ pc = "call"
    /\ ~call.done
    /\ call' = [call EXCEPT
                  !.done = TRUE,
                  !.result = estimate_distance(call.box_area, call.frame_area),
                  !.other_result = estimate_distance(call.other_area, call.frame_area)]
    /\ UNCHANGED <<sys, pain, haptic, frame_count, pc, clock, timers, feed, ev, hist>>

SpecDistance == InitDistance /\ [][DistanceCall]_vars

(***************************************************************************)
(* get_object_insight and get_material_insight applied to a label and a    *)
(* material name; a result is the key of the entry returned, or None.      *)
(***************************************************************************)
\* every key of OBJECT_INSIGHTS, two labels it lacks, and no label
ObjectNames == DOMAIN OBJECT_INSIGHTS \cup {"person", "dining table", None}

\* every key of MATERIAL_INSIGHTS, two names it lacks, and no name
MaterialNames == DOMAIN MATERIAL_INSIGHTS \cup {"rubber", "leather", None}

InitLookup ==
    /\ sys = SysInit(TRUE)
    /\ haptic = HapticInit(TRUE)
    /\ pain = PainInit
    /\ frame_count = 0
    /\ pc = "call"
    /\ clock = StartTime
    /\ timers = 0
    /\ feed = Free
    /\ ev = EvOf("init")
    /\ hist = HistInit
    /\ \E object_name \in ObjectNames, material_name \in MaterialNames :
          call = [op |-> "lookup", object_name |-> object_name,
                  material_name |-> material_name, done |-> FALSE,
                  object_insight |-> None, material_insight |-> None]

LookupCall ==
    /\ pc = "call"
    /\ ~call.done
    /\ call' = [call EXCEPT
                  !.done = TRUE,
                  !.object_insight = get_object_insight(call.object_name),
                  !.material_insight = get_material_insight(call.material_name)]
    /\ UNCHANGED <<sys, pain, haptic, frame_count, pc, clock, timers, feed, ev, hist>>

SpecLookup == InitLookup /\ [][LookupCall]_vars

(***************************************************************************)
(* Properties.                                                             *)
(***************************************************************************)
\* the last sample of the pain history
LastPain == pain.pain_history[Len(pain.pain_history)]

\* C1: in every reachable state the applied grip is in [0,100] and the
\* reported pain level is in [0,100].
C1_GripAndPainInRange ==
    /\ sys.current_grip \in 0..100
    /\ pain.pain_level \in 0..100

\* C1 witness: an accepted cycle at full grip whose pain sample the clip held
\* at 100, after the strain has built up and relief mode has been left
C1_ClippedSample ==
    /\ ev.kind = "accepted"
    /\ ev.pain_updates = <<TRUE>>
    /\ sys.current_grip = 85
    /\ ~pain.relief_mode
    /\ LastPain = 100

\* C2: over any sequence of update_pain_level calls, relief_mode turns true
\* only in an update whose resulting level is above 75, turns false only in an
\* update whose resulting level is below 40, and an update whose resulting
\* level is in [40,75] leaves it as it was.
C2_ReliefHysteresis ==
    [][/\ (~pain.relief_mode /\ pain'.relief_mode) => pain'.pain_level > 75
       /\ (pain.relief_mode /\ ~pain'.relief_mode) => pain'.pain_level < 40
       /\ pain'.pain_level \in 40..75 => pain'.relief_mode = pain.relief_mode]_vars

\* C2 witness: relief mode, entered by an earlier update, is kept by an update
\* whose resulting level has fallen back between the thresholds
C2_ReliefHeldBetweenThresholds ==
    /\ call.n >= 2
    /\ pain.relief_mode
    /\ pain.pain_level \in 40..75
    /\ LastPain < 40

\* C3: in a run of no-detection cycles that starts from a contact with
\* confidence 1.0 and a committed material, the material is cleared, the contact
\* flag dropped and the pain model updated with is_gripping false at the 19th
\* cycle of the run, and at no earlier one.
C3_ClearedAtNineteenthCycle ==
    (ev.kind = "none" /\ hist.none_from = FFromInt(1) /\ hist.none_run <= 19) =>
        IF hist.none_run < 19
        THEN /\ sys.current_material # None
             /\ sys.was_in_contact
             /\ ev.pain_updates = << >>
        ELSE /\ sys.current_material = None
             /\ ~sys.was_in_contact
             /\ ev.pain_updates = <<FALSE>>

\* the last n entries of s
LastN(s, n) == SubSeq(s, Len(s) - n + 1, Len(s))

\* C7: after each cycle that appends a target to the grip history, the history
\* holds the last min(k,15) targets appended since it was last emptied and the
\* applied grip is the truncated mean of the history; a single target on an
\* empty history is applied as it is.
C7_GripIsWindowMean ==
    ev.targets # << >> =>
        /\ sys.grip_history = LastN(hist.targets, Min2(Len(hist.targets), 15))
        /\ sys.current_grip = SeqSum(sys.grip_history) \div Len(sys.grip_history)
        /\ Len(hist.targets) = 1 => sys.current_grip = hist.targets[1]

\* C7 witness: a full window of 15 that holds targets of two materials, the
\* applied grip on the ramp between them
C7_RampOverFullWindow ==
    /\ ev.targets = <<30>>
    /\ Len(hist.targets) > 15
    /\ Len(sys.grip_history) = 15
    /\ sys.grip_history[1] = 85
    /\ sys.current_grip \in 31..84


\* C4: for a label that is a key of OBJECT_MATERIAL_MAP and features that are
\* not absent, classify_material returns the material of the table with
\* confidence 0.85, whatever the features; "wine glass" gives glass.
C4_LabelPrior ==
    (/\ call.done
     /\ call.features # NoFeatures
     /\ call.detected_object \in DOMAIN OBJECT_MATERIAL_MAP)
        => /\ call.result = [material |-> OBJECT_MATERIAL_MAP[call.detected_object],
                             confidence |-> FDivInt(85, 100)]
           /\ call.detected_object = "wine glass" => call.result.material = "glass"

\* C4 witness: a wine glass whose texture alone would be classified as stone
C4_WineGlassOverRoughTexture ==
    /\ call.done
    /\ call.detected_object = "wine glass"
    /\ call.features = PxRough
    /\ call.result.material = "glass"

\* C5: after the reset command the session and the pain state are those of the
\* start: material and object none, grip 0, confidence 0, the three histories
\* empty, no contact, pain level 0, strain 0, no relief mode, timestamps and
\* counters at their initial values.
C5_ResetRestoresInitialState ==
    ev.kind = "reset" => sys = SysInit(sys.yolo) /\ pain = PainInit

\* C6: every detection cycle updates the pain model exactly once, whether the
\* classification is accepted, below the threshold or there is no detection.
C6_PainUpdatedEveryCycle ==
    ev.kind \in {"accepted", "weak", "none"} => Len(ev.pain_updates) = 1

\* C8, amended: an accepted cycle commits the raw material while the window
\* holds fewer than 5 samples, and from 5 samples on a material that no other
\* occurs more often than in the window.
C8_ModeFromFiveSamples ==
    ev.kind = "accepted" =>
        IF Len(sys.material_history) < 5
        THEN sys.current_material = ev.material
        ELSE /\ Count(sys.material_history, sys.current_material) > 0
             /\ \A x \in Materials :
                    Count(sys.material_history, x)
                        <= Count(sys.material_history, sys.current_material)

\* C8 witness: a window of 5 to 9 samples whose mode is committed in place of
\* the raw material
C8_ModeBeforeFull ==
    /\ ev.kind = "accepted"
    /\ Len(sys.material_history) \in 5..9
    /\ sys.current_material # ev.material

\* C8: an accepted cycle commits the raw material while the window holds fewer
\* than 10 samples, and the mode of the window once it holds 10.
C8_RawUntilFull ==
    ev.kind = "accepted" =>
        IF Len(sys.material_history) < 10
        THEN sys.current_material = ev.material
        ELSE \A x \in Materials :
                 Count(sys.material_history, x)
                     <= Count(sys.material_history, sys.current_material)

\* the window after five fabric and five metal classifications
FabricThenMetal ==
    <<"fabric", "fabric", "fabric", "fabric", "fabric",
      "metal", "metal", "metal", "metal", "metal">>

\* C9: from the start, five fabric cycles followed by five metal cycles raise
\* exactly one new-material event, at the sixth cycle.
C9_OneEventAtTransition ==
    (/\ hist.cycles = 10
     /\ ev.kind = "accepted"
     /\ sys.material_history = FabricThenMetal)
        => hist.new_material_at = <<6>>

\* C10: the committed material changes to a new material only in a cycle
\* after which every sample of the window is that material.
C10_ChangeOnlyWhenSaturated ==
    (ev.kind = "accepted" /\ ev.is_new_material) =>
        \A i \in DOMAIN sys.material_history :
            sys.material_history[i] = sys.current_material

\* the alerts of class name dispatched by the last step
Dispatched(name) == \E i \in DOMAIN ev.alerts : ev.alerts[i] = name

\* C11: every accepted cycle that raises a new-contact event or a
\* new-material event dispatches a contact alert.
C11_ContactAlertOnEvents ==
    (ev.kind = "accepted" /\ (ev.is_new_contact \/ ev.is_new_material))
        => Dispatched("contact")

\* C12: an accepted cycle that raises neither a new-contact nor a new-material
\* event dispatches no contact alert, however long the contact has lasted.
C12_ContactLatched ==
    (ev.kind = "accepted" /\ ~ev.is_new_contact /\ ~ev.is_new_material)
        => ~Dispatched("contact")

\* C13: after 30 consecutive updates with is_gripping true, grip 90 and
\* material metal from the initial pain state, the strain is at its cap of 50,
\* the reported pain level is above 75 and relief mode is on.
C13_StrainScenario ==
    (/\ call.grip_strength = 90
     /\ call.material = "metal"
     /\ call.n = 30)
        => /\ pain.strain_accumulation = StrainCap
           /\ pain.pain_level > 75
           /\ pain.relief_mode

\* C14: estimate_distance returns one of the six bands 5, 8, 12, 20, 35, 50
\* and every one of them for some region; of two regions of a frame the larger
\* is never given the larger distance; a region of 35% of the frame is given
\* 5 cm and a region of 2% is given 50 cm.
C14_DistanceBands ==
    call.done =>
        /\ {call.result, call.other_result} \subseteq {5, 8, 12, 20, 35, 50}
        /\ {estimate_distance(k * (call.frame_area \div 100), call.frame_area) :
                k \in {35, 25, 18, 12, 8, 2}} = {5, 8, 12, 20, 35, 50}
        /\ call.box_area <= call.other_area => call.result >= call.other_result
        /\ call.box_area * 100 = 35 * call.frame_area => call.result = 5
        /\ call.box_area * 100 = 2 * call.frame_area => call.result = 50

\* C14 witness: a region of 2% and a region of 35% of the frame, at the two
\* ends of the bands
C14_FarAndNear ==
    /\ call.done
    /\ call.box_area * 100 = 2 * call.frame_area
    /\ call.other_area * 100 = 35 * call.frame_area
    /\ call.result = 50
    /\ call.other_result = 5

\* new is old with x appended, the oldest entry evicted when old held cap entries
Fifo(old, new, x, cap) ==
    new = IF Len(old) < cap THEN Append(old, x) ELSE Append(Tail(old), x)

\* C15: the material history never holds more than 10 entries, the grip
\* history never more than 15 and the pain history never more than 20; every
\* append of a detection cycle puts the new entry last and, when the history
\* was full, drops the first entry and keeps the others in order.
C15_BoundedFifo ==
    /\ [](/\ Len(sys.material_history) <= 10
          /\ Len(sys.grip_history) <= 15
          /\ Len(pain.pain_history) <= 20)
    /\ [][hist'.cycles # hist.cycles =>
            /\ ev'.kind = "accepted" =>
                  Fifo(sys.material_history, sys'.material_history, ev'.material, 10)
            /\ Len(ev'.targets) = 1 =>
                  Fifo(sys.grip_history, sys'.grip_history, ev'.targets[1], 15)
            /\ Len(ev'.pain_updates) = 1 =>
                  Fifo(pain.pain_history, pain'.pain_history,
                       pain'.pain_history[Len(pain'.pain_history)], 20)
            /\ ev'.kind # "accepted" => sys'.material_history = sys.material_history
            /\ ev'.targets = << >> => sys'.grip_history = sys.grip_history
            /\ ev'.pain_updates = << >> => pain'.pain_history = pain.pain_history]_vars

\* C15 witness: the three histories full after evictions, the material and
\* the grip history holding entries of two materials
C15_FullMixedHistories ==
    /\ ev.kind = "accepted"
    /\ hist.cycles > 20
    /\ Len(sys.material_history) = 10
    /\ sys.material_history[1] # sys.material_history[10]
    /\ Len(sys.grip_history) = 15
    /\ sys.grip_history[1] # sys.grip_history[15]
    /\ Len(pain.pain_history) = 20

\* the core state: the committed material and object, the applied grip, the
\* confidence, the material and grip histories, the contact flag and the pain
\* state
Core ==
    <<sys.current_material, sys.current_object, sys.current_grip, sys.confidence,
      sys.material_history, sys.grip_history, sys.was_in_contact,
      pain.pain_level, pain.pain_history, pain.strain_accumulation,
      pain.relief_mode>>

\* C16: a frame whose count is not a multiple of 3 leaves the core state
\* unchanged, both when it is read and when its key is handled, unless the key
\* is the reset command.
C16_CoreHeldBetweenCycles ==
    [][(\/ pc = "read" /\ frame_count' = frame_count + 1 /\ frame_count' % 3 # 0
        \/ pc = "key" /\ frame_count % 3 # 0 /\ ev'.kind # "reset")
          => Core' = Core]_vars

\* C16 witness: a frame without detection has been read in the middle of a
\* contact, the material, the histories and the pain of the cycle before it
\* still in place
C16_SkippedDuringContact ==
    /\ ev.kind = "skip"
    /\ frame_count % 3 # 0
    /\ sys.current_material # None
    /\ sys.was_in_contact
    /\ sys.grip_history # << >>
    /\ pain.pain_history # << >>
    /\ pain.pain_level > 0

\* the region of the frame of the last cycle is one that feature scoring
\* alone, without a label, classifies above the acceptance threshold
ScoredRegion ==
    /\ ev.frame.det # NoBox
    /\ Accepted(classify_material(
           analyze_texture([rows |-> ev.frame.det.h, cols |-> ev.frame.det.w,
                            px |-> ev.frame.px]),
           None))

\* C17: without the object detector a detection cycle on a frame whose region
\* feature scoring alone classifies above the threshold is an accepted cycle:
\* it commits a material and a grip target.
C17_DegradedModeClassifies ==
    (/\ ~sys.yolo
     /\ ev.kind \in {"accepted", "weak", "none"}
     /\ ScoredRegion)
        => /\ ev.kind = "accepted"
           /\ sys.current_material # None
           /\ sys.target_grip > 0

\* the world with the audio backend in the other condition
OtherAudio(w) == [w EXCEPT !.haptic.audio_enabled = ~@]

\* the world without what the audio backend accounts for: its availability and
\* the sounds played
Soundless(w) == [w EXCEPT !.haptic.audio_enabled = FALSE, !.ev.beeps = 0]

\* the detection cycle of run from the world w on a frame, det and c being what
\* the detector and the classifier return and material what the smoothing picks
RunCycle(w, frame, det, c, material, current_time) ==
    IF det = NoBox
    THEN NoDetectionBranch([w EXCEPT !.ev = [EvOf("none") EXCEPT !.frame = frame]])
    ELSE IF Accepted(c)
    THEN AcceptedBranch(
             BoxStep([w EXCEPT !.ev = [EvOf("accepted") EXCEPT
                                          !.frame = frame, !.material = c.material]],
                     det, current_time),
             c.material, c.confidence, material, current_time)
    ELSE WeakBranch(
             BoxStep([w EXCEPT !.ev = [EvOf("weak") EXCEPT
                                          !.frame = frame, !.material = c.material]],
                     det, current_time))

\* the cycle on the same frame, with the same smoothing choice, from the state
\* in which only the availability of audio differs
TwinCycle(frame, material, current_time) ==
    RunCycle(OtherAudio(World), frame, detect_with_yolo(sys, frame),
             Classification(detect_with_yolo(sys, frame), frame),
             material, current_time)

\* C18: every detection cycle and every reset, taken on the same input from the
\* state that differs only in the availability of audio, ends in the same
\* session state, pain state, alert flags, alerts dispatched and timers, so
\* that runs with and without audio on the same inputs go through the same
\* states; the two differ only in the sounds played.
C18_AudioDoesNotInfluenceCore ==
    [][/\ hist'.cycles # hist.cycles =>
            Soundless(TwinCycle(ev'.frame, sys'.current_material, clock'))
                = Soundless(World')
       /\ (pc = "key" /\ ev'.kind = "reset") =>
            Soundless(ResetCommand([OtherAudio(World) EXCEPT !.ev = EvOf("reset")]))
                = Soundless(World')]_vars

\* C18 witness: a cycle with audio, late in a contact with the pain raised,
\* that sounded a proximity and a contact alert and started a delayed pulse,
\* all of which a run without audio leaves silent
C18_SoundedCycle ==
    /\ haptic.audio_enabled
    /\ ev.kind = "accepted"
    /\ Dispatched("proximity")
    /\ Dispatched("contact")
    /\ ev.beeps = 2
    /\ timers > 0
    /\ pain.pain_level > 60

\* the pain-alert interval of 3 seconds had elapsed when the last cycle read
\* the clock: an alert was dispatched, or the time of the last one is still
\* more than the interval back
PainIntervalElapsed ==
    \/ Dispatched("pain_low")
    \/ Dispatched("pain_high")
    \/ Elapsed(clock, sys.last_pain_alert, 30)

\* C19: an accepted cycle that leaves the reported pain level above 70 with
\* the pain-alert interval elapsed dispatches the higher-tier pain alert, and
\* one that leaves it above 50 and at most 70 dispatches the lower-tier alert.
C19_PainAlertTiers ==
    (ev.kind = "accepted" /\ PainIntervalElapsed) =>
        /\ pain.pain_level > 70 => Dispatched("pain_high")
        /\ pain.pain_level \in 51..70 => Dispatched("pain_low")

\* an alert of class c is among those of the step observed in e
DispatchedClass(e, c) == \E i \in DOMAIN e.alerts : ClassOf(e.alerts[i]) = c

\* the minimum time between two alerts of a class, in tenths of a second: 3.0 s
\* for pain, 1.5 s for insight, 0.2 s for proximity; for contact, which is given
\* none, the least that is named for a class other than proximity
IntervalOf(c) ==
    IF c = "pain" THEN 30 ELSE IF c = "proximity" THEN 2 ELSE 15

\* a detection cycle dispatches an alert of one of the classes only when more
\* than the interval of the class has passed since the last alert of that class
RateLimitedStep(classes) ==
    hist'.cycles # hist.cycles =>
        \A c \in classes :
            (DispatchedClass(ev', c) /\ hist.alert_at[c] > 0)
                => clock' - hist.alert_at[c] > IntervalOf(c)

\* nothing is queued: only a detection cycle dispatches alerts, at most one of a
\* class, and each answers a request raised in that same cycle
NotReplayedStep ==
    /\ hist'.cycles = hist.cycles => (ev' = ev \/ ev'.alerts = << >>)
    /\ hist'.cycles # hist.cycles =>
        /\ \A c \in AlertClasses :
              Cardinality({i \in DOMAIN ev'.alerts : ClassOf(ev'.alerts[i]) = c}) <= 1
        /\ DispatchedClass(ev', "pain") =>
              ev'.kind = "accepted" /\ pain'.pain_level > 60
        /\ DispatchedClass(ev', "insight") =>
              sys'.current_object # sys.current_object \/ ev'.is_new_material
        /\ DispatchedClass(ev', "proximity") =>
              ev'.kind \in {"accepted", "weak"} /\ sys'.object_distance_cm \in 0..10

\* the part of C20 that the code keeps: the proximity, insight and pain alerts
\* are rate-limited by time: two alerts of one of these classes are never
\* closer than 0.2 s, 1.5 s and 3.0 s, and a request inside the interval is
\* dropped, never queued or replayed
TimedClassesRateLimited ==
    [][RateLimitedStep({"proximity", "insight", "pain"}) /\ NotReplayedStep]_vars

\* a cycle in which a pain request and a proximity request were both dropped
\* inside their intervals
RequestsDropped ==
    /\ ev.kind = "accepted"
    /\ pain.pain_level > 60
    /\ ~DispatchedClass(ev, "pain")
    /\ hist.alert_at["pain"] > 0
    /\ clock - hist.alert_at["pain"] <= 30
    /\ sys.object_distance_cm \in 0..10
    /\ ~DispatchedClass(ev, "proximity")
    /\ hist.alert_at["proximity"] > 0
    /\ clock - hist.alert_at["proximity"] <= 2

\* C20: every alert class, contact included, is rate-limited by time: two
\* alerts of a class are never closer than the interval of the class, and a
\* request inside the interval is dropped, never queued or replayed.
C20_EveryClassRateLimited ==
    [][RateLimitedStep(AlertClasses) /\ NotReplayedStep]_vars


\* C21: once the Q key is read, or cap.read fails, the loop is left at once:
\* no further detection cycle runs, no field of the session or of the pain
\* model changes, and the finally clause releases the camera.
C21_StopEndsLoop ==
    /\ [][/\ (pc = "key" /\ ev'.kind = "quit") => pc' = "done"
          /\ (pc = "read" /\ ev'.kind = "read_fail") => pc' = "done"
          /\ pc' = "done" => UNCHANGED <<sys, pain, haptic, frame_count, hist>>
          /\ pc \in {"done", "closed"} =>
                /\ pc' \in {"done", "closed"}
                /\ UNCHANGED <<sys, pain, haptic, frame_count, hist, ev>>]_vars
    /\ (ev.kind \in {"quit", "read_fail"}) ~> (pc = "closed")

\* C21 witness: the loop was left by Q during a contact, with the pain level
\* raised, and the camera is released
C21_QuitInContact ==
    /\ pc = "closed"
    /\ ev.kind = "quit"
    /\ sys.was_in_contact
    /\ pain.pain_level > 0


\* the object half of C22: a label OBJECT_INSIGHTS lacks is answered with
\* the 'default' entry, any other label with its own entry
ObjectLookupFallsBack ==
    call.done =>
        call.object_insight = IF call.object_name \in DOMAIN OBJECT_INSIGHTS
                              THEN call.object_name ELSE "default"

\* C22: every lookup with an unknown key is answered with an entry of the
\* table: get_object_insight with the 'default' entry, and
\* get_material_insight with an entry for every non-empty material name the
\* material-insight table lacks.
C22_LookupsFallBack ==
    call.done =>
        /\ call.object_name \notin DOMAIN OBJECT_INSIGHTS =>
              call.object_insight = "default"
        /\ (call.material_name # None
              /\ call.material_name \notin DOMAIN MATERIAL_INSIGHTS) =>
              call.material_insight \in DOMAIN MATERIAL_INSIGHTS


\* the material and the contact flag are cleared
Cleared == sys.current_material = None /\ ~sys.was_in_contact

\* C23: after a contact, if no classification is accepted any more, whatever
\* the order of weak detections and empty frames, the material is None and
\* the contact flag false after finitely many cycles (29 at most, the
\* confidence being 1.0 at most), and they stay so until a classification is
\* accepted.
C23_NoStaleMaterial ==
    /\ [](hist.unaccepted >= 29 => Cleared)
    /\ [][(Cleared /\ ev'.kind # "accepted") => Cleared']_vars

\* C23 witness: a contact of confidence 1.0 is cleared by the 29th cycle
\* after it and no sooner: weak detections down to the weak floor, then empty
\* frames
C23_ClearedAtLast ==
    /\ Cleared
    /\ hist.unaccepted = 29
    /\ Len(pain.pain_history) = 2
    /\ sys.material_history = <<"stone">>


\* a frame whose input fails: the detector raises or finds nothing, the region
\* is smaller than 20 x 20, or the feature extraction raises
InputFailure(frame) ==
    \/ frame.det = NoBox
    \/ frame.det.w < 20
    \/ frame.det.h < 20
    \/ frame.px = NoFeatures

\* C24: a detection cycle whose input fails applies exactly the no-detection
\* transition: the confidence decays by 0.05 against the floor of 0.1, and
\* the session and the pain model are not otherwise altered.
C24_FailureIsNoDetection ==
    [][(DetectionFrame /\ pc' = "key" /\ InputFailure(ev'.frame)) =>
          \E w \in {NoDetectionBranch(Start("none"))} :
              sys' = w.sys /\ pain' = w.pain]_vars


\* the pain sample C25 states for grip g, pain factor f, updated strain s
\* and scale k
StatedSample(g, f, s, k) ==
    Min2(100, Max2(0, FTrunc(
        FMul(FAdd(FMul(FMul(FFromInt(Max2(0, g - 40)), FDivInt(15, 10)), f), s), k))))

\* C25: a gripping update with grip g on a material of pain factor f, from
\* strain s, leaves the strain at min(50, s + g/200) and appends to the pain
\* history the sample clamp_0..100(trunc((max(0, g - 40) * 1.5 * f + s') * k)),
\* k being 0.6 if relief mode was on before the update and 1 otherwise.
C25_GrippingSample ==
    [][call'.n = call.n + 1 =>
          /\ pain'.strain_accumulation =
                FMin(FFromInt(50),
                     FAdd(pain.strain_accumulation, FDivInt(call.grip_strength, 200)))
          /\ pain'.pain_history[Len(pain'.pain_history)] =
                StatedSample(call.grip_strength,
                             MATERIAL_DATABASE[call.material].pain_factor,
                             pain'.strain_accumulation,
                             IF pain.relief_mode THEN FDivInt(6, 10) ELSE FFromInt(1))
       ]_vars

\* C25 witness: relief mode has scaled a sample taken at the strain cap: at
\* full grip on glass the unscaled sample would be 100
C25_ScaledAtCap ==
    /\ call.op = "feed"
    /\ call.grip_strength = 100
    /\ call.material = "glass"
    /\ pain.strain_accumulation = StrainCap
    /\ pain.relief_mode
    /\ LastPain < 100


\* C26: an update with is_gripping false appends the previous reported level
\* minus 2, floored at 0, lowers the strain by 0.5, floored at 0, and leaves
\* the same pain state whatever the grip and the material passed.
C26_NotGrippingDecay ==
    [][(call'.n = call.n + 1 /\ ~call'.is_gripping) =>
          /\ pain'.pain_history[Len(pain'.pain_history)] = Max2(0, pain.pain_level - 2)
          /\ pain'.strain_accumulation =
                IF FLe(pain.strain_accumulation, FDivInt(5, 10)) THEN FZero
                ELSE FSub(pain.strain_accumulation, FDivInt(5, 10))
          /\ \A g \in {0, 100}, m \in {None, "glass", "paper", "rubber"} :
                update_pain_level(pain, g, m, FALSE) = pain'
       ]_vars

\* C26 witness: a not-gripping update on glass at grip 85 took 2 from a
\* positive level and 0.5 from a strain above it
C26_ReleasedOnGlass ==
    /\ call.op = "update_pain_level"
    /\ call.n > 1
    /\ ~call.is_gripping
    /\ call.material = "glass"
    /\ LastPain > 0
    /\ FGt(pain.strain_accumulation, FZero)


\* C27: after every pain update the reported level is the mean of the samples
\* of the pain window rounded to the nearest integer: no integer is nearer to
\* the mean, whichever way a half is rounded.
C27_LevelIsRoundedMean ==
    (call.op = "update_pain_level" /\ call.n > 0) =>
        \E d \in {pain.pain_level * Len(pain.pain_history) - SeqSum(pain.pain_history)} :
            2 * d <= Len(pain.pain_history) /\ 0 - 2 * d <= Len(pain.pain_history)


\* what holds in place of C27: the level is the mean with its fraction cut off
LevelIsTruncatedMean ==
    (call.op = "update_pain_level" /\ call.n > 0) =>
        \E d \in {SeqSum(pain.pain_history) - pain.pain_level * Len(pain.pain_history)} :
            0 <= d /\ d < Len(pain.pain_history)


\* C28: in every reachable state the strain is within [0, 50], whatever the
\* sequence of gripping updates, not-gripping updates and resets.
C28_StrainWithinBounds ==
    /\ FLe(FZero, pain.strain_accumulation)
    /\ FLe(pain.strain_accumulation, FFromInt(50))

\* C28 witness: the cap held a strain that a further gripping update at grip
\* 85 would have taken past 50, after a release had taken it below
C28_CapHeldAfterRelease ==
    /\ call.op = "wear"
    /\ call.grip_strength = 85
    /\ call.mix = <<"release", "grip", "grip">>
    /\ pain.strain_accumulation = FFromInt(50)


\* C29: a classification is accepted exactly when its material is not None
\* and its confidence is above 0.4; the accepting cycle leaves the session
\* confidence at the new confidence, the contact flag true, the smoothed
\* material as current material and its base grip as target grip; a cycle
\* whose classification is not accepted changes none of the material history,
\* the grip history, the target grip and the applied grip.
C29_AcceptanceThreshold ==
    /\ [](ev.kind \in {"accepted", "weak"} =>
            \E c \in {Classification(ev.frame.det, ev.frame)} :
               /\ ev.kind = "accepted"
                     <=> (c.material # None /\ FGt(c.confidence, FDivInt(4, 10)))
               /\ (ev.kind = "accepted" /\ pc = "key") =>
                     /\ sys.confidence = c.confidence
                     /\ sys.was_in_contact
                     /\ sys.current_material
                           \in SmoothedMaterials(sys.material_history, c.material)
                     /\ sys.target_grip
                           = MATERIAL_DATABASE[sys.current_material].grip_strength)
    /\ [][(pc = "read" /\ pc' = "key" /\ ev'.kind = "weak") =>
             /\ sys'.material_history = sys.material_history
             /\ sys'.grip_history = sys.grip_history
             /\ sys'.target_grip = sys.target_grip
             /\ sys'.current_grip = sys.current_grip]_vars

\* C29 witness: a region scored just over the threshold is accepted during a
\* contact with backpacks, after one just under it was not, and the smoothed
\* material, fabric, is committed with its base grip
C29_AcceptedJustOver ==
    /\ ev.kind = "accepted"
    /\ pc = "key"
    /\ ev.frame = OverFrame
    /\ ev.material = "stone"
    /\ sys.material_history = <<"fabric", "fabric", "fabric", "fabric", "stone">>
    /\ hist.cycles = 6
    /\ sys.current_material = "fabric"
    /\ sys.target_grip = 30
    /\ sys.confidence = FDivInt(23, 57)


\* the place of a material in the enumeration order of the categories
Place(material) == CHOOSE i \in 1..Len(MaterialOrder) : MaterialOrder[i] = material

\* C30: when the label decides nothing, the material returned for a feature
\* vector has a maximal score, and every material before it in the order
\* fabric, metal, glass, wood, plastic, paper, ceramic, stone has a smaller one.
C30_FirstArgMax ==
    (/\ call.op = "classify_material"
     /\ call.done
     /\ call.features # NoFeatures
     /\ call.detected_object \notin DOMAIN OBJECT_MATERIAL_MAP) =>
        \E sc \in {scores(call.features)} :
            /\ call.result.material \in Materials
            /\ \A m \in Materials : sc[m] <= sc[call.result.material]
            /\ \A m \in Materials :
                  Place(m) < Place(call.result.material) =>
                      sc[m] < sc[call.result.material]

\* C30 witness: wood and stone score alike on a grained region and wood, the
\* earlier of the two, is returned
C30_WoodBeforeStone ==
    /\ call.op = "classify_material"
    /\ call.done
    /\ call.detected_object = "person"
    /\ call.features = PxGrain
    /\ scores(call.features)["wood"] = scores(call.features)["stone"]
    /\ call.result.material = "wood"


\* the classifier was applied to features under a label that decides nothing
ScoringCall ==
    /\ call.op = "classify_material"
    /\ call.done
    /\ call.features # NoFeatures
    /\ call.detected_object \notin DOMAIN OBJECT_MATERIAL_MAP

\* C31: in feature-scoring mode the scores sum to more than 0 and the
\* confidence returned is the greatest score divided by the sum, clamped into
\* [0, 1].
C31_ConfidenceNormalised ==
    ScoringCall =>
        \E sc \in {scores(call.features)} :
          \E total \in {SeqSum([i \in 1..Len(MaterialOrder) |-> sc[MaterialOrder[i]]])} :
            \E best \in {CHOOSE b \in {sc[m] : m \in Materials} :
                            \A m \in Materials : sc[m] <= b} :
               /\ total > 0
               /\ best >= 0
               /\ call.result.confidence =
                     IF best >= total THEN FFromInt(1) ELSE FDivInt(best, total)
               /\ FLe(FZero, call.result.confidence)
               /\ FLe(call.result.confidence, FFromInt(1))

\* C31 witness: on a rough region the plastic score is negative, the stone
\* score exceeds the sum of all eight, and the confidence is clamped to 1
C31_ClampedToOne ==
    /\ ScoringCall
    /\ call.features = PxRough
    /\ scores(call.features)["plastic"] < 0
    /\ scores(call.features)["stone"] > SumScores(scores(call.features), 1)
    /\ call.result.confidence = FFromInt(1)


\* C32: a region whose label is in the object-to-material table is given the
\* table's material with confidence 0.85, whether or not the feature
\* extractor returned features for it.
C32_LabelPriorWithoutFeatures ==
    (/\ call.op = "classify_material"
     /\ call.done
     /\ call.detected_object \in DOMAIN OBJECT_MATERIAL_MAP) =>
        /\ call.result.material = OBJECT_MATERIAL_MAP[call.detected_object]
        /\ call.result.confidence = FDivInt(85, 100)


\* the cycle of the last step, run on the same frame with the same smoothing
\* choice from the state in which no delayed pulse is pending
CycleWithoutPending(frame, material, current_time) ==
    RunCycle([World EXCEPT !.timers = 0], frame, detect_with_yolo(sys, frame),
             Classification(detect_with_yolo(sys, frame), frame),
             material, current_time)

\* C33: a delayed pulse that runs changes no field of the session, of the pain
\* model or of the haptic state (timestamps and alert flags), and a detection
\* cycle or reset run while pulses are pending ends as it does with none
\* pending, so that the pulses can run at any point between the steps of the
\* loop without changing what the loop computes.
C33_PulsesShareNoState ==
    [][/\ timers' < timers =>
            UNCHANGED <<sys, pain, haptic, frame_count, pc, clock, feed, ev, hist>>
       /\ hist'.cycles # hist.cycles =>
            \E w \in {CycleWithoutPending(ev'.frame, sys'.current_material, clock')} :
                /\ <<w.sys, w.pain, w.haptic, w.ev>> = <<sys', pain', haptic', ev'>>
                /\ w.timers = timers' - timers
       /\ (pc = "key" /\ ev'.kind = "reset") =>
            \E w \in {ResetCommand([World EXCEPT !.timers = 0, !.ev = EvOf("reset")])} :
                /\ <<w.sys, w.pain, w.haptic, w.ev>> = <<sys', pain', haptic', ev'>>
                /\ timers' = timers]_vars

\* C33 witness: an accepted cycle has run and started a pulse while the pulse
\* of an earlier cycle was still pending
C33_CycleOverPendingPulse ==
    /\ ev.kind = "accepted"
    /\ pc = "key"
    /\ hist.cycles >= 2
    /\ timers >= 2
    /\ ev.alerts # << >>


\* the stages of a cycle that come before the alerts in the stated data flow
Stages == {"commit", "grip", "pain"}

\* C34: in an accepted cycle every alert is dispatched after the cycle has
\* committed its smoothed classification, updated the grip and updated the
\* pain model.
C34_AlertsAfterStages ==
    ev.kind = "accepted" =>
        \A i \in DOMAIN ev.order :
            ev.order[i] \notin Stages =>
                \A st \in Stages : \E j \in 1..(i - 1) : ev.order[j] = st


\* C35: in every state the current material is none exactly when the contact
\* flag is false.
C35_MaterialNoneIffNoContact ==
    (sys.current_material = None) <=> ~sys.was_in_contact


\* C36: in every state, relief mode implies a pain level of at least 40 and
\* its absence a pain level of at most 75.
C36_ReliefWithinBand ==
    /\ pain.relief_mode => pain.pain_level >= ReliefExit
    /\ ~pain.relief_mode => pain.pain_level <= ReliefEnter


\* C37: an update of the pain model with is_gripping false leaves the pain
\* level where it was or lowers it; stated for the pain states that updates
\* alone lead to, no reset having intervened.
C37_ReleaseNeverRaises ==
    [][(/\ call.op = "wear"
        /\ \A i \in DOMAIN call.mix : call.mix[i] # "reset"
        /\ call'.mix = Append(call.mix, "release"))
          => pain'.pain_level <= pain.pain_level]_vars


\* C38: once no classification is accepted any more the applied grip comes to
\* 0; in particular the session does not come to rest with the material
\* cleared and the grip above 0: an unaccepted cycle that finds the material
\* cleared and leaves every field of the session as it was, and so would leave
\* them so on the same frame for ever, finds the grip at 0.
C38_GripReleasedAfterLoss ==
    [][(/\ hist'.cycles # hist.cycles
        /\ ev'.kind # "accepted"
        /\ sys.current_material = None
        /\ sys' = sys)
          => sys.current_grip = 0]_vars


\* C39: the material an accepted cycle commits is determined by the material
\* window: it is the only material the smoothing can return for the window
\* the cycle leaves, so that a second run on the same classifications commits
\* the same.
C39_SmoothingDetermined ==
    ev.kind = "accepted" =>
        SmoothedMaterials(sys.material_history, ev.material) = {sys.current_material}


\* C40: after 15 accepted cycles in a row that committed the same material,
\* the applied grip is the base grip strength of that material.
C40_GripAtTargetAfterWindow ==
    hist.run_len >= GripHistoryMaxLen =>
        sys.current_grip = MATERIAL_DATABASE[hist.run_material].grip_strength

\* C40 witness: the fifteenth cycle in a row on fabric, after a hold of glass
\* whose targets filled the window: the grip has come down to the 30 of fabric
C40_EasedWithinWindow ==
    /\ hist.run_len = GripHistoryMaxLen
    /\ hist.run_material = "fabric"
    /\ Len(hist.targets) > 2 * GripHistoryMaxLen
    /\ hist.targets[Len(hist.targets) - GripHistoryMaxLen] = 85
    /\ sys.current_grip = 30
=============================================================================
